---------------------------- MODULE Spec2Model ----------------------------
(***************************************************************************)
(* Model of src/app.py: the half-board check-in tracker.  A spreadsheet    *)
(* upload is parsed into booking records (_parse_file), the records        *)
(* replace the module-level list _records (upload), and toggle flips one   *)
(* record's "estado".                                                      *)
(*                                                                         *)
(* Python strings are modelled as sequences of one-character strings, so   *)
(* that str.lower, str.strip, int(str) and strftime are computed character *)
(* by character.  Messages that the code only passes on (flash texts) are  *)
(* kept as TLA+ strings.                                                   *)
(***************************************************************************)
EXTENDS Integers, Sequences, FiniteSets, TLC

(***************************************************************************)
(* Bounds of the model.                                                    *)
(***************************************************************************)
\* longest header row drawn for the column resolver
MaxCols == 4
\* how far around each boundary of the calendar the serial numbers are drawn
SerialSpan == 2
\* most data rows of an uploaded sheet
MaxRows == 2
\* uploads start only while the id counter is at most this
MaxId == 5
\* requests served by the threaded server in one behaviour
MaxRequests == 3

(***************************************************************************)
(* Strings.                                                                *)
(***************************************************************************)
UpperLetters == <<"A", "B", "C", "D", "E", "F", "G", "H", "I", "J", "K", "L", "M", "N", "O", "P", "Q", "R", "S", "T", "U", "V", "W", "X", "Y", "Z">>
LowerLetters == <<"a", "b", "c", "d", "e", "f", "g", "h", "i", "j", "k", "l", "m", "n", "o", "p", "q", "r", "s", "t", "u", "v", "w", "x", "y", "z">>
DigitChars == <<"0", "1", "2", "3", "4", "5", "6", "7", "8", "9">>
Whitespace == {" ", "\t", "\n", "\r"}

Range(s) == {s[i] : i \in DOMAIN s}

LowerOf == [c \in Range(UpperLetters) |->
               LowerLetters[CHOOSE i \in DOMAIN UpperLetters : UpperLetters[i] = c]]

\* str.lower() on one character
LowerChar(c) == IF c \in DOMAIN LowerOf THEN LowerOf[c] ELSE c

\* str.lower()
Lower(s) == [i \in DOMAIN s |-> LowerChar(s[i])]

RECURSIVE LStrip(_)
\* str.lstrip()
LStrip(s) == IF s # << >> /\ Head(s) \in Whitespace THEN LStrip(Tail(s)) ELSE s

RECURSIVE RStrip(_)
\* str.rstrip()
RStrip(s) ==
    IF s # << >> /\ s[Len(s)] \in Whitespace THEN RStrip(SubSeq(s, 1, Len(s) - 1)) ELSE s

\* str.strip(): drops the leading and the trailing whitespace only
Strip(s) == RStrip(LStrip(s))

\* a faulty variant of NormalizeHeader: the header is lower-cased but not stripped
NormalizeHeaderNoStrip(col) == Lower(col)

\* col.lower().strip() of line 29
NormalizeHeader(col) == Strip(Lower(col))

\* str(n) of a non-negative integer
RECURSIVE NatToStr(_)
NatToStr(n) ==
    IF n < 10 THEN <<DigitChars[n + 1]>>
    ELSE Append(NatToStr(n \div 10), DigitChars[(n % 10) + 1])

\* str(n) of an integer
IntToStr(n) == IF n < 0 THEN <<"-">> \o NatToStr(-n) ELSE NatToStr(n)

DigitValue(c) == (CHOOSE i \in DOMAIN DigitChars : DigitChars[i] = c) - 1

RECURSIVE DigitsToNat(_)
DigitsToNat(s) ==
    IF s = << >> THEN 0
    ELSE DigitsToNat(SubSeq(s, 1, Len(s) - 1)) * 10 + DigitValue(s[Len(s)])

(***************************************************************************)
(* Cell values, as pandas hands them to the code.                          *)
(*   missing  : NaN, the empty cell (pd.isna is true)                      *)
(*   int      : a Python int                                               *)
(*   npint    : a numpy integer (not an instance of int)                   *)
(*   float    : a finite float, v tenths                                   *)
(*   special  : a float no int can hold here: inf, -inf, 1e300, -1e300     *)
(*   text     : a str                                                      *)
(*   datetime : a pd.Timestamp or datetime                                 *)
(***************************************************************************)
Missing == [k |-> "missing"]
PyInt(v) == [k |-> "int", v |-> v]
NpInt(v) == [k |-> "npint", v |-> v]
PyFloat(tenths) == [k |-> "float", v |-> tenths]
Special(name) == [k |-> "special", s |-> name]
Text(s) == [k |-> "text", s |-> s]
DateTime(y, m, d) == [k |-> "datetime", y |-> y, m |-> m, d |-> d]

\* pd.isna(value)
IsNa(value) == value.k = "missing"

\* isinstance(value, (int, float))
IsIntOrFloat(value) == value.k \in {"int", "float", "special"}

\* str(value) of a float with one decimal
FloatToStr(tenths) ==
    LET a == IF tenths < 0 THEN -tenths ELSE tenths
    IN  (IF tenths < 0 THEN <<"-">> ELSE << >>)
        \o NatToStr(a \div 10) \o <<".">> \o NatToStr(a % 10)

\* str(value)
PyStr(value) ==
    CASE value.k = "missing" -> <<"n", "a", "n">>
      [] value.k \in {"int", "npint"} -> IntToStr(value.v)
      [] value.k = "float" -> FloatToStr(value.v)
      [] value.k = "special" -> value.s
      [] value.k = "text" -> value.s
      [] value.k = "datetime" ->
            NatToStr(value.y) \o <<"-">>
            \o (IF value.m < 10 THEN <<"0">> ELSE << >>) \o NatToStr(value.m) \o <<"-">>
            \o (IF value.d < 10 THEN <<"0">> ELSE << >>) \o NatToStr(value.d)
            \o <<" ", "0", "0", ":", "0", "0", ":", "0", "0">>

(***************************************************************************)
(* The calendar of datetime: toordinal, fromordinal, strftime.             *)
(***************************************************************************)
IsLeap(y) == (y % 4 = 0) /\ ((y % 100 # 0) \/ (y % 400 = 0))

DaysInMonth(y, m) ==
    IF m = 2 THEN (IF IsLeap(y) THEN 29 ELSE 28)
    ELSE IF m \in {4, 6, 9, 11} THEN 30 ELSE 31

RECURSIVE DaysBeforeMonth(_, _)
DaysBeforeMonth(y, m) ==
    IF m = 1 THEN 0 ELSE DaysBeforeMonth(y, m - 1) + DaysInMonth(y, m - 1)

DaysBeforeYear(y) ==
    LET p == y - 1 IN p * 365 + (p \div 4) - (p \div 100) + (p \div 400)

\* datetime(y, m, d).toordinal()
ToOrdinal(y, m, d) == DaysBeforeYear(y) + DaysBeforeMonth(y, m) + d

\* datetime(1899, 12, 30).toordinal() of line 48
EpochOrdinal == ToOrdinal(1899, 12, 30)

\* datetime.max.toordinal()
MaxOrdinal == ToOrdinal(9999, 12, 31)

RECURSIVE MonthOf(_, _, _)
\* the month holding day n (0-based) of year y, searched from month m
MonthOf(y, n, m) ==
    IF n < DaysBeforeMonth(y, m) + DaysInMonth(y, m) THEN m ELSE MonthOf(y, n, m + 1)

\* datetime.fromordinal(ord) for 1 <= ord <= MaxOrdinal
FromOrdinal(ord) ==
    LET n0   == ord - 1
        n400 == n0 \div 146097
        r400 == n0 % 146097
        n100 == r400 \div 36524
        r100 == r400 % 36524
        n4   == r100 \div 1461
        r4   == r100 % 1461
        n1   == r4 \div 365
        r1   == r4 % 365
        year == n400 * 400 + 1 + n100 * 100 + n4 * 4 + n1
    IN  IF n1 = 4 \/ n100 = 4
        THEN [y |-> year - 1, m |-> 12, d |-> 31]
        ELSE LET month == MonthOf(year, r1, 1)
             IN  [y |-> year, m |-> month, d |-> r1 - DaysBeforeMonth(year, month) + 1]

Pad2(n) == IF n < 10 THEN <<"0">> \o NatToStr(n) ELSE NatToStr(n)

\* strftime("%d/%m/%Y"); %Y is not zero-padded by the C library
Strftime(date) == Pad2(date.d) \o <<"/">> \o Pad2(date.m) \o <<"/">> \o NatToStr(date.y)

(***************************************************************************)
(* Results of a call: a returned value or a raised exception.              *)
(***************************************************************************)
\* str(exc): a text, and for the ValueError of line 32 the fields joined to it
Message(text) == [text |-> text, fields |-> << >>]

Returned(v) == [tag |-> "return", value |-> v]
Raised(exc, text) == [tag |-> "raise", exc |-> exc, msg |-> Message(text)]

\* int(value) of a number or a string
PyIntOf(value) ==
    CASE value.k \in {"int", "npint"} -> Returned(value.v)
      [] value.k = "float" ->
            Returned(IF value.v >= 0 THEN value.v \div 10 ELSE -((-value.v) \div 10))
      [] value.k = "special" -> Raised("OverflowError", "cannot convert float to integer")
      [] value.k = "text" ->
            LET t    == Strip(value.s)
                sgn  == t # << >> /\ t[1] \in {"+", "-"}
                body == IF sgn THEN SubSeq(t, 2, Len(t)) ELSE t
            IN  IF body # << >> /\ \A i \in DOMAIN body : body[i] \in Range(DigitChars)
                THEN Returned(IF sgn /\ t[1] = "-" THEN -DigitsToNat(body)
                              ELSE DigitsToNat(body))
                ELSE Raised("ValueError", "invalid literal for int() with base 10")
      [] OTHER -> Raised("TypeError", "int() argument must be a string or a real number")

(***************************************************************************)
(* _format_checkout, lines 41-52.                                          *)
(***************************************************************************)
\* a faulty variant of SerialToDate: no except clause, the exception leaves the function
SerialToDateUnguarded(value) ==
    LET n == PyIntOf(value)
    IN  IF n.tag = "raise" THEN n
        ELSE LET ord == EpochOrdinal + n.value
             IN  IF ord < 1 \/ ord > MaxOrdinal
                 THEN Raised("ValueError", "ordinal out of range")
                 ELSE Returned(Strftime(FromOrdinal(ord)))

\* lines 47-51: the day count turned into a date, str(value) on any exception
SerialToDate(value) ==
    LET n == PyIntOf(value)
    IN  IF n.tag = "raise" THEN Returned(PyStr(value))
        ELSE LET ord == EpochOrdinal + n.value
             IN  IF ord < 1 \/ ord > MaxOrdinal THEN Returned(PyStr(value))
                 ELSE Returned(Strftime(FromOrdinal(ord)))

_format_checkout(value) ==
    IF IsNa(value) THEN Returned(<< >>)
    ELSE IF value.k = "datetime"
         THEN Returned(Strftime([y |-> value.y, m |-> value.m, d |-> value.d]))
    ELSE IF IsIntOrFloat(value) THEN SerialToDate(value)
    ELSE Returned(PyStr(value))

(***************************************************************************)
(* _normalize_columns, lines 19-38.                                        *)
(***************************************************************************)
\* the dict of lines 19-24, in its insertion order
REQUIRED_COLUMNS == <<
    [label |-> <<"r", "o", "o", "m", " ", "n", "u", "m", "b", "e", "r">>,          field |-> "habitacion"],
    [label |-> <<"n", "u", "m", "b", "e", "r", " ", "o", "f", " ", "p", "e", "r", "s", "o", "n", "s">>,    field |-> "personas"],
    [label |-> <<"d", "a", "y", " ", "o", "f", " ", "c", "h", "e", "c", "k", " ", "o", "u", "t">>,     field |-> "salida"],
    [label |-> <<"h", "a", "l", "f", "-", "b", "o", "a", "r", "d", " ", "i", "n", "c", "l", "u", "d", "e", "d", "?">>, field |-> "media_pension"] >>

RequiredLabels == {REQUIRED_COLUMNS[i].label : i \in DOMAIN REQUIRED_COLUMNS}

RECURSIVE NormalizedNames(_)
\* line 29: the key of each column
NormalizedNames(columns) ==
    IF columns = << >> THEN << >>
    ELSE <<NormalizeHeader(Head(columns))>> \o NormalizedNames(Tail(columns))

\* line 29: the dict of the keys; a later column overwrites an earlier one
\* with the same key
DictOf(columns, key) ==
    [k \in Range(key) |->
        columns[CHOOSE i \in DOMAIN key :
                   key[i] = k /\ \A j \in DOMAIN key : key[j] = k => j <= i]]

\* line 29: normalized
Normalized(columns) == DictOf(columns, NormalizedNames(columns))

\* line 30: the labels with no column, in the order of REQUIRED_COLUMNS
MissingColumns(normalized) ==
    LET absent(e) == e.label \notin DOMAIN normalized
    IN  SelectSeq(REQUIRED_COLUMNS, absent)

\* line 37: the header that each label is renamed from
RenameMap(normalized) ==
    [h \in {normalized[key] : key \in RequiredLabels} |->
        CHOOSE key \in RequiredLabels : normalized[key] = h]

\* lines 30-38, with the dict of line 29 at hand
RenameColumns(columns, normalized) ==
    LET missing == MissingColumns(normalized)
    IN  IF missing # << >>
        THEN [tag |-> "raise", exc |-> "ValueError",
              msg |-> [text |-> "Faltan las siguientes columnas en el archivo: ",
                       fields |-> [i \in DOMAIN missing |-> missing[i].field]]]
        ELSE LET rename_map == RenameMap(normalized)
             IN  Returned([i \in DOMAIN columns |->
                              IF columns[i] \in DOMAIN rename_map
                              THEN rename_map[columns[i]] ELSE columns[i]])

\* lines 27-38: the column names after df.rename, or the ValueError of line 32
_normalize_columns(columns) == RenameColumns(columns, Normalized(columns))

(***************************************************************************)
(* State.                                                                  *)
(***************************************************************************)
VARIABLES
    \* the module-level list of line 15 and the counter of line 16
    \* (the value its next call returns)
    _records, _record_id_counter,
    \* the request served last and what the handler did with it
    request, response,
    \* every id the counter has handed out, in order
    issued,
    \* _records before the request served last, when that was a toggle
    toggled_from,
    \* the threaded server: the list objects, the identity of the list that
    \* the global name _records is bound to, what each handler thread is doing,
    \* and the number of requests taken
    lists, bound, thread, served,
    \* the records of the last list bound to _records, estados aside
    current,
    \* the column resolver applied to one header row
    nc_columns, nc_result,
    \* the checkout formatter applied to one cell
    fc_value, fc_result

vars == <<_records, _record_id_counter, request, response, issued, toggled_from,
          lists, bound, thread, served, current,
          nc_columns, nc_result, fc_value, fc_result>>

NotCalled == [tag |-> "not called"]

storeVars == <<_records, _record_id_counter, request, response, issued, toggled_from>>

InitStore ==
    /\ _records = << >>
    /\ _record_id_counter = 1
    /\ request = [op |-> "none"]
    /\ response = [op |-> "none"]
    /\ issued = << >>
    /\ toggled_from = << >>

Threads == {"t1", "t2"}

Idle == [pc |-> "idle", rows |-> << >>, renamed |-> << >>, i |-> 0, parsed |-> << >>,
         ref |-> 0, seen |-> << >>, could |-> {}]

concVars == <<lists, bound, thread, served, current>>

\* line 15: _records is bound to a fresh empty list
InitConc ==
    /\ lists = << << >> >>
    /\ bound = 1
    /\ thread = [t \in Threads |-> Idle]
    /\ served = 0
    /\ current = << >>

InitPure ==
    /\ nc_columns = << >>
    /\ nc_result = NotCalled
    /\ fc_value = Missing
    /\ fc_result = NotCalled

(***************************************************************************)
(* The column resolver on its own: every header row of at most MaxCols     *)
(* distinct headers of HeaderPool.                                         *)
(***************************************************************************)
HeaderPool == {
    <<"r", "o", "o", "m", " ", "n", "u", "m", "b", "e", "r">>, <<" ", " ", "R", "o", "o", "m", " ", "N", "u", "m", "b", "e", "r", " ">>,
    <<"n", "u", "m", "b", "e", "r", " ", "o", "f", " ", "p", "e", "r", "s", "o", "n", "s">>, <<"N", "U", "M", "B", "E", "R", " ", "O", "F", " ", "P", "E", "R", "S", "O", "N", "S", "\t">>,
    <<"d", "a", "y", " ", "o", "f", " ", "c", "h", "e", "c", "k", " ", "o", "u", "t">>, <<"D", "a", "y", " ", "O", "f", " ", "C", "h", "e", "c", "k", " ", "O", "u", "t">>,
    <<"h", "a", "l", "f", "-", "b", "o", "a", "r", "d", " ", "i", "n", "c", "l", "u", "d", "e", "d", "?">>, <<" ", "H", "a", "l", "f", "-", "B", "o", "a", "r", "d", " ", "I", "n", "c", "l", "u", "d", "e", "d", "?">>,
    <<"r", "o", "o", "m", "n", "u", "m", "b", "e", "r">>, <<" ", "N", "o", "t", "e", "s">> }

RECURSIVE DistinctSeqs(_, _)
\* the sequences of at most n distinct elements of S
DistinctSeqs(S, n) ==
    IF n = 0 THEN {<< >>}
    ELSE LET shorter == DistinctSeqs(S, n - 1)
         IN  shorter \cup UNION {{Append(s, x) : x \in S \ Range(s)} : s \in shorter}

InitResolver ==
    /\ InitStore
    /\ InitConc
    /\ nc_columns \in DistinctSeqs(HeaderPool, MaxCols)
    /\ nc_result = NotCalled
    /\ fc_value = Missing
    /\ fc_result = NotCalled

NormalizeColumns ==
    /\ nc_result = NotCalled
    /\ nc_result' = _normalize_columns(nc_columns)
    /\ UNCHANGED <<storeVars, concVars, nc_columns, fc_value, fc_result>>

NextResolver == NormalizeColumns

SpecResolver == InitResolver /\ [][NextResolver]_vars

(***************************************************************************)
(* The checkout formatter on its own.                                      *)
(***************************************************************************)
\* day counts around the two ends of the calendar, the epoch and a present date
SerialSamples ==
    LET around(c) == (c - SerialSpan) .. (c + SerialSpan)
    IN  around(1 - EpochOrdinal) \cup around(0) \cup around(45000)
        \cup around(MaxOrdinal - EpochOrdinal)

CheckoutValues ==
    {Missing}
    \cup {PyInt(n) : n \in SerialSamples}
    \cup {NpInt(n) : n \in SerialSamples}
    \cup {PyFloat(n * 10 + f) : n \in SerialSamples, f \in {0, 5}}
    \cup {Special(s) : s \in {<<"i", "n", "f">>, <<"-", "i", "n", "f">>, <<"1", "e", "+", "3", "0", "0">>, <<"-", "1", "e", "+", "3", "0", "0">>}}
    \cup {Text(s) : s \in {<<"t", "b", "d">>, <<" ", "0", "5", "/", "0", "3", "/", "2", "0", "2", "4", " ">>, << >>}}
    \cup {DateTime(2024, 3, 5), DateTime(1999, 12, 31), DateTime(2024, 2, 29)}

InitCheckout ==
    /\ InitStore
    /\ InitConc
    /\ nc_columns = << >>
    /\ nc_result = NotCalled
    /\ fc_value \in CheckoutValues
    /\ fc_result = NotCalled

FormatCheckout ==
    /\ fc_result = NotCalled
    /\ fc_result' = _format_checkout(fc_value)
    /\ UNCHANGED <<storeVars, concVars, nc_columns, nc_result, fc_value>>

NextCheckout == FormatCheckout

SpecCheckout == InitCheckout /\ [][NextCheckout]_vars

(***************************************************************************)
(* Claims about the column resolver and the checkout formatter.            *)
(***************************************************************************)
\* every header of the row lower-cased and trimmed
CanonicalCase(columns) == [i \in DOMAIN columns |-> Strip(Lower(columns[i]))]

\* C8: the column resolver succeeds exactly when each of the four labels is
\* matched by a header after lower-casing and trimming; it then renames, for
\* each label, a header that matches it to the label, and (no label being
\* matched twice) gives the columns that the canonical-case header row
\* gives; otherwise it fails naming exactly the fields of the labels that no
\* header matches.
C8_ResolverMatchesNormalizedHeaders ==
    nc_result # NotCalled =>
        LET canon == CanonicalCase(nc_columns)
            unmatched == {i \in DOMAIN REQUIRED_COLUMNS :
                             REQUIRED_COLUMNS[i].label \notin Range(canon)}
            canonRow == [i \in DOMAIN canon |->
                            IF canon[i] \in RequiredLabels THEN canon[i]
                            ELSE nc_columns[i]]
            noTies == \A i, j \in DOMAIN canon :
                          (i # j /\ canon[i] \in RequiredLabels) => canon[i] # canon[j]
        IN  IF unmatched = {}
            THEN /\ nc_result.tag = "return"
                 /\ Len(nc_result.value) = Len(nc_columns)
                 /\ \A label \in RequiredLabels :
                       \E i \in DOMAIN nc_columns :
                           canon[i] = label /\ nc_result.value[i] = label
                 /\ \A i \in DOMAIN nc_columns :
                       \/ nc_result.value[i] = nc_columns[i]
                       \/ nc_result.value[i] \in RequiredLabels
                             /\ nc_result.value[i] = canon[i]
                 /\ noTies => nc_result = _normalize_columns(canonRow)
            ELSE /\ nc_result.tag = "raise"
                 /\ nc_result.exc = "ValueError"
                 /\ Len(nc_result.msg.fields) = Cardinality(unmatched)
                 /\ Range(nc_result.msg.fields) =
                        {REQUIRED_COLUMNS[i].field : i \in unmatched}

\* C8 witness: a row whose four headers differ from the labels in case and
\* surrounding whitespace has been resolved
C8_Witness ==
    /\ nc_result # NotCalled
    /\ nc_result.tag = "return"
    /\ \E i \in DOMAIN nc_columns : nc_columns[i] = <<" ", " ", "R", "o", "o", "m", " ", "N", "u", "m", "b", "e", "r", " ">>
    /\ \E i \in DOMAIN nc_columns : nc_columns[i] = <<"N", "U", "M", "B", "E", "R", " ", "O", "F", " ", "P", "E", "R", "S", "O", "N", "S", "\t">>
    /\ \A i \in DOMAIN nc_columns : nc_columns[i] \notin RequiredLabels

IsStr(v) == /\ DOMAIN v = 1 .. Len(v)
            /\ \A i \in DOMAIN v : v[i] \in STRING

\* the day count falls outside the dates datetime can hold
Unrepresentable(value) ==
    \/ value.k = "special"
    \/ /\ value.k \in {"int", "npint"}
       /\ (value.v < 1 - EpochOrdinal \/ value.v > MaxOrdinal - EpochOrdinal)
    \/ /\ value.k = "float"
       /\ (value.v <= (0 - EpochOrdinal) * 10 \/ value.v >= (MaxOrdinal - EpochOrdinal + 1) * 10)

\* C9: the checkout formatter returns a string for every cell value and never
\* raises; a missing value gives the empty string, and a number that is no
\* representable date gives the number rendered as a string.
C9_FormatterTotal ==
    fc_result # NotCalled =>
        /\ fc_result.tag = "return"
        /\ IsStr(fc_result.value)
        /\ fc_value.k = "missing" => fc_result.value = << >>
        /\ Unrepresentable(fc_value) => fc_result.value = PyStr(fc_value)

\* C9 witness: the day after 31/12/9999 has been formatted as the raw number
C9_Witness ==
    /\ fc_value = PyInt(2958466)
    /\ fc_result = Returned(<<"2", "9", "5", "8", "4", "6", "6">>)

(***************************************************************************)
(* _parse_file, lines 55-80.                                               *)
(***************************************************************************)
\* a selection of a column name that several columns carry is a Series
Series(cells) == [k |-> "series", cells |-> cells]

\* row[label] after df.rename and the projection of line 65
CellOf(renamed, row, label) ==
    LET at == {i \in DOMAIN renamed : renamed[i] = label}
    IN  IF Cardinality(at) = 1 THEN row[CHOOSE i \in at : TRUE]
        ELSE Series([i \in at |-> row[i]])

\* str(row[label]).strip() of lines 73 and 76
StrStrip(value) ==
    IF value.k = "series" THEN <<"<", "S", "e", "r", "i", "e", "s", ">">> ELSE Strip(PyStr(value))

\* int(cell) of line 74, as the Python value it is
IntOfCell(n) == IF n.tag = "raise" THEN n ELSE Returned(PyInt(n.value))

\* line 74: int(cell) if not pd.isna(cell) else ""
Personas(value) ==
    IF value.k = "series"
    THEN Raised("ValueError", "The truth value of a Series is ambiguous.")
    ELSE IF IsNa(value) THEN Returned(Text(<< >>))
    ELSE IntOfCell(PyIntOf(value))

\* line 75: _format_checkout on the cell; pd.isna of a Series has no truth value
Salida(value) ==
    IF value.k = "series"
    THEN Raised("ValueError", "The truth value of a Series is ambiguous.")
    ELSE _format_checkout(value)

\* a faulty variant of NextRecordId: the id is the record's place in this upload
NextRecordIdPerUpload(counter, parsed) == Len(parsed) + 1

\* line 69: next(_record_id_counter) with the counter at `counter`
NextRecordId(counter, parsed) == counter

\* line 77
NewEstado == "Pendiente"

\* lines 70-79: the record of one row, or the exception of its first cell
\* that raises
BuildRecord(record_id, habitacion, personas, salida, media_pension) ==
    IF personas.tag = "raise" THEN personas
    ELSE IF salida.tag = "raise" THEN salida
    ELSE Returned([id |-> record_id,
                   habitacion |-> habitacion,
                   personas |-> personas.value,
                   salida |-> salida.value,
                   media_pension |-> media_pension,
                   estado |-> NewEstado])

RECURSIVE BuildRecords(_, _, _, _, _, _)
\* line 70 and on for row i, the counter having moved at line 69
AppendRecord(renamed, rows, i, counter, ids, parsed, built) ==
    IF built.tag = "raise"
    THEN [tag |-> "raise", exc |-> built.exc, msg |-> built.msg,
          counter |-> counter, ids |-> ids]
    ELSE BuildRecords(renamed, rows, i + 1, counter, ids, Append(parsed, built.value))

\* line 69 and on for row i, with the id that next() returned
DrawId(renamed, rows, i, counter, ids, parsed, record_id) ==
    AppendRecord(renamed, rows, i, counter + 1, Append(ids, record_id), parsed,
        BuildRecord(record_id,
                    StrStrip(CellOf(renamed, rows[i], <<"r", "o", "o", "m", " ", "n", "u", "m", "b", "e", "r">>)),
                    Personas(CellOf(renamed, rows[i], <<"n", "u", "m", "b", "e", "r", " ", "o", "f", " ", "p", "e", "r", "s", "o", "n", "s">>)),
                    Salida(CellOf(renamed, rows[i], <<"d", "a", "y", " ", "o", "f", " ", "c", "h", "e", "c", "k", " ", "o", "u", "t">>)),
                    StrStrip(CellOf(renamed, rows[i], <<"h", "a", "l", "f", "-", "b", "o", "a", "r", "d", " ", "i", "n", "c", "l", "u", "d", "e", "d", "?">>))))

\* lines 67-80: the loop from row i on; the counter moves once for every row
\* reached, also for the row that raises; ids are the values it returned
BuildRecords(renamed, rows, i, counter, ids, parsed) ==
    IF i > Len(rows)
    THEN [tag |-> "return", value |-> parsed, counter |-> counter, ids |-> ids]
    ELSE DrawId(renamed, rows, i, counter, ids, parsed, NextRecordId(counter, parsed))

\* lines 64-80 with the outcome of _normalize_columns at hand
ParseFrame(df, rows, counter) ==
    IF df.tag = "raise"
    THEN [tag |-> "raise", exc |-> df.exc, msg |-> df.msg,
          counter |-> counter, ids |-> << >>]
    ELSE BuildRecords(df.value, rows, 1, counter, << >>, << >>)

\* the uploaded bytes: nothing, bytes that are no workbook, or a sheet
EmptyContent == [bytes |-> "empty"]
GarbageContent == [bytes |-> "garbage"]
Workbook(columns, rows) == [bytes |-> "excel", columns |-> columns, rows |-> rows]

\* lines 55-80: the records and the counter after the call, or the exception
\* raised and the counter after it
_parse_file(content, counter) ==
    IF content.bytes = "empty"
    THEN [tag |-> "raise", exc |-> "ValueError",
          msg |-> Message("El archivo está vacío."),
          counter |-> counter, ids |-> << >>]
    ELSE IF content.bytes # "excel"
    THEN [tag |-> "raise", exc |-> "ValueError",
          msg |-> Message("No se pudo leer el archivo. Asegúrate de que sea un Excel válido."),
          counter |-> counter, ids |-> << >>]
    ELSE ParseFrame(_normalize_columns(content.columns), content.rows, counter)

(***************************************************************************)
(* The handlers: index (83-85), upload (88-104), toggle (107-115).         *)
(***************************************************************************)
NoFile == [filename |-> "none"]
Unnamed(content) == [filename |-> "", content |-> content]
Named(content) == [filename |-> "reservas.xlsx", content |-> content]

Flash(category, text) == [category |-> category, message |-> Message(text)]
NoFlash == [category |-> "none", message |-> Message("")]

\* a faulty variant of RecordsAfterUpload: the list is emptied before the file is parsed
RecordsAfterUploadCleared(outcome, records) ==
    IF outcome.tag = "return" THEN outcome.value ELSE << >>

\* a faulty variant of RecordsAfterUpload: the parsed records are appended to the list
RecordsAfterUploadExtended(outcome, records) ==
    IF outcome.tag = "return" THEN records \o outcome.value ELSE records

\* lines 95-102: _records after the try block
RecordsAfterUpload(outcome, records) ==
    IF outcome.tag = "return" THEN outcome.value ELSE records

\* lines 95-104: what upload answers; an exception that is no ValueError leaves
\* the handler and the server answers 500
UploadResponse(outcome) ==
    IF outcome.tag = "return"
    THEN [op |-> "upload", status |-> 302,
          flash |-> Flash("success", "Archivo cargado correctamente.")]
    ELSE IF outcome.exc = "ValueError"
    THEN [op |-> "upload", status |-> 302,
          flash |-> [category |-> "error", message |-> outcome.msg]]
    ELSE [op |-> "upload", status |-> 500, flash |-> NoFlash]

\* a faulty variant of ToggledEstado: the record is marked checked in, whatever it was
ToggledEstadoAlwaysIn(estado) == "Ingresó"

\* line 113
ToggledEstado(estado) == IF estado = "Pendiente" THEN "Ingresó" ELSE "Pendiente"

\* a faulty variant of ToggleRecord: every record of the room's id or after it is flipped
ToggleRecordAndRest(records, record_id) ==
    [i \in DOMAIN records |->
        IF records[i].id >= record_id
        THEN [records[i] EXCEPT !.estado = ToggledEstado(@)] ELSE records[i]]

\* lines 109-113: the first record with the id has its estado flipped, in place
ToggleRecord(records, record_id) ==
    LET hits == {i \in DOMAIN records : records[i].id = record_id}
    IN  IF hits = {} THEN records
        ELSE LET first == CHOOSE i \in hits : \A j \in hits : i <= j
             IN  [records EXCEPT ![first].estado = ToggledEstado(@)]

(***************************************************************************)
(* The requests of the model.                                              *)
(***************************************************************************)
\* three rows of a bookings sheet: the cells under the four labels and under
\* any other header
RowA == [room |-> Text(<<" ", "1", "0", "1", " ">>), persons |-> PyFloat(25),
         checkout |-> DateTime(2024, 3, 5), half |-> Text(<<"Y", "e", "s", " ">>),
         other |-> Text(<<"l", "a", "t", "e">>)]
RowB == [room |-> PyInt(102), persons |-> Missing,
         checkout |-> PyInt(45000), half |-> Missing,
         other |-> Missing]
RowC == [room |-> Text(<<"1", "0", "3">>), persons |-> Text(<<"t", "w", "o">>),
         checkout |-> Text(<<"t", "b", "d">>), half |-> Text(<<"n", "o">>),
         other |-> Missing]

\* a row whose number of persons is no finite number
RowD == [room |-> Text(<<"1", "0", "4">>), persons |-> Special(<<"i", "n", "f">>),
         checkout |-> PyFloat(450005), half |-> Text(<<"s", "i">>),
         other |-> Missing]

SampleRows == {RowA, RowB, RowC}

\* the records that the first two rows give, their id and estado aside:
\* " 101 " trimmed, int(2.5), 5 March 2024 as a date; 102 as text, the empty
\* marker, day 45000 after 30/12/1899, str(NaN)
ExpectedA == [habitacion |-> <<"1", "0", "1">>, personas |-> PyInt(2),
              salida |-> <<"0", "5", "/", "0", "3", "/", "2", "0", "2", "4">>, media_pension |-> <<"Y", "e", "s">>]
ExpectedB == [habitacion |-> <<"1", "0", "2">>, personas |-> Text(<< >>),
              salida |-> <<"1", "5", "/", "0", "3", "/", "2", "0", "2", "3">>, media_pension |-> <<"n", "a", "n">>]

RECURSIVE SeqsUpTo(_, _)
\* the sequences of at most n elements of S
SeqsUpTo(S, n) ==
    IF n = 0 THEN {<< >>}
    ELSE LET shorter == SeqsUpTo(S, n - 1)
         IN  shorter \cup UNION {{Append(s, x) : x \in S} : s \in shorter}

\* a header row with the four labels in other letter cases, with blanks around
\* them, in another order and beside a column the code drops
GoodColumns == << <<" ", "N", "o", "t", "e", "s">>, <<" ", "H", "a", "l", "f", "-", "B", "o", "a", "r", "d", " ", "I", "n", "c", "l", "u", "d", "e", "d", "?">>, <<" ", " ", "R", "o", "o", "m", " ", "N", "u", "m", "b", "e", "r", " ">>,
                  <<"N", "U", "M", "B", "E", "R", " ", "O", "F", " ", "P", "E", "R", "S", "O", "N", "S", "\t">>, <<"D", "a", "y", " ", "O", "f", " ", "C", "h", "e", "c", "k", " ", "O", "u", "t">> >>

\* a header row without the check-out and the half-board columns
BadColumns == << <<"r", "o", "o", "m", " ", "n", "u", "m", "b", "e", "r">>, <<"n", "u", "m", "b", "e", "r", " ", "o", "f", " ", "p", "e", "r", "s", "o", "n", "s">>, <<"c", "h", "e", "c", "k", " ", "o", "u", "t">> >>

\* a header row with two columns that match "number of persons"
TieColumns == << <<"r", "o", "o", "m", " ", "n", "u", "m", "b", "e", "r">>, <<"n", "u", "m", "b", "e", "r", " ", "o", "f", " ", "p", "e", "r", "s", "o", "n", "s">>, <<"d", "a", "y", " ", "o", "f", " ", "c", "h", "e", "c", "k", " ", "o", "u", "t">>,
                 <<"h", "a", "l", "f", "-", "b", "o", "a", "r", "d", " ", "i", "n", "c", "l", "u", "d", "e", "d", "?">>, <<"N", "u", "m", "b", "e", "r", " ", "o", "f", " ", "P", "e", "r", "s", "o", "n", "s", " ">> >>

\* the cell of a sample row that stands under a header
CellUnder(sample, header) ==
    LET label == Strip(Lower(header))
    IN  CASE label = <<"r", "o", "o", "m", " ", "n", "u", "m", "b", "e", "r">> -> sample.room
          [] label = <<"n", "u", "m", "b", "e", "r", " ", "o", "f", " ", "p", "e", "r", "s", "o", "n", "s">> -> sample.persons
          [] label = <<"d", "a", "y", " ", "o", "f", " ", "c", "h", "e", "c", "k", " ", "o", "u", "t">> -> sample.checkout
          [] label = <<"h", "a", "l", "f", "-", "b", "o", "a", "r", "d", " ", "i", "n", "c", "l", "u", "d", "e", "d", "?">> -> sample.half
          [] OTHER -> sample.other

RECURSIVE CellsUnder(_, _)
CellsUnder(sample, columns) ==
    IF columns = << >> THEN << >>
    ELSE <<CellUnder(sample, Head(columns))>> \o CellsUnder(sample, Tail(columns))

RECURSIVE SheetRows(_, _)
SheetRows(columns, samples) ==
    IF samples = << >> THEN << >>
    ELSE <<CellsUnder(Head(samples), columns)>> \o SheetRows(columns, Tail(samples))

Sheet(columns, samples) == Workbook(columns, SheetRows(columns, samples))

\* request.files.get("archivo"), with the sample rows the sheet was made of
Uploads ==
    {[file |-> NoFile, samples |-> << >>],
     [file |-> Unnamed(Sheet(GoodColumns, <<RowA>>)), samples |-> <<RowA>>],
     [file |-> Named(EmptyContent), samples |-> << >>],
     [file |-> Named(GarbageContent), samples |-> << >>],
     [file |-> Named(Sheet(BadColumns, <<RowA>>)), samples |-> <<RowA>>],
     [file |-> Named(Sheet(TieColumns, <<RowA>>)), samples |-> <<RowA>>],
     [file |-> Named(Sheet(GoodColumns, <<RowB, RowD>>)), samples |-> <<RowB, RowD>>]}
    \cup {[file |-> Named(Sheet(GoodColumns, samples)), samples |-> samples] :
             samples \in SeqsUpTo(SampleRows, MaxRows)}

ToggleIds == 1 .. (MaxId + 1)

(***************************************************************************)
(* The handlers as steps, each request served from start to end.           *)
(***************************************************************************)
Index ==
    /\ request' = [op |-> "index"]
    /\ response' = [op |-> "index", status |-> 200, registros |-> _records]
    /\ toggled_from' = << >>
    /\ UNCHANGED <<_records, _record_id_counter, issued>>

Upload(u) ==
    /\ _record_id_counter + Len(u.samples) <= MaxId + 1
    /\ request' = [op |-> "upload", file |-> u.file, samples |-> u.samples]
    /\ toggled_from' = << >>
    /\ IF u.file.filename \in {"none", ""}
       THEN /\ response' = [op |-> "upload", status |-> 302,
                            flash |-> Flash("error",
                               "Debes seleccionar un archivo de Excel antes de subirlo.")]
            /\ UNCHANGED <<_records, _record_id_counter, issued>>
       ELSE \E outcome \in {_parse_file(u.file.content, _record_id_counter)} :
                /\ _records' = RecordsAfterUpload(outcome, _records)
                /\ _record_id_counter' = outcome.counter
                /\ issued' = issued \o outcome.ids
                /\ response' = UploadResponse(outcome)

Toggle(record_id) ==
    /\ request' = [op |-> "toggle", record_id |-> record_id]
    /\ _records' = ToggleRecord(_records, record_id)
    /\ toggled_from' = _records
    /\ response' =
          IF \E i \in DOMAIN _records : _records[i].id = record_id
          THEN [op |-> "toggle", status |-> 302,
                flash |-> Flash("success", "Estado actualizado.")]
          ELSE [op |-> "toggle", status |-> 302,
                flash |-> Flash("error", "No se encontró la habitación solicitada.")]
    /\ UNCHANGED <<_record_id_counter, issued>>

pureVars == <<nc_columns, nc_result, fc_value, fc_result>>

Init == InitStore /\ InitConc /\ InitPure

Next ==
    \/ Index /\ UNCHANGED <<concVars, pureVars>>
    \/ \E u \in Uploads : Upload(u) /\ UNCHANGED <<concVars, pureVars>>
    \/ \E record_id \in ToggleIds : Toggle(record_id) /\ UNCHANGED <<concVars, pureVars>>

Spec == Init /\ [][Next]_vars

(***************************************************************************)
(* Claims about the handlers.                                              *)
(***************************************************************************)
UploadServed(req) == req.op = "upload"

\* the business fields of a record
Fields(r) == [habitacion |-> r.habitacion, personas |-> r.personas,
              salida |-> r.salida, media_pension |-> r.media_pension]

ExpectedFields(sample) ==
    CASE sample = RowA -> ExpectedA
      [] sample = RowB -> ExpectedB
      [] OTHER -> [habitacion |-> << >>, personas |-> Text(<< >>),
                   salida |-> << >>, media_pension |-> << >>]

Ids(records) == {records[i].id : i \in DOMAIN records}

\* C1: an upload that ends in a failure (no file selected, no content,
\* unreadable content, a required header missing, or any other failure)
\* leaves _records as it was: same records, order, ids and estados.
C1_FailedUploadKeepsStore ==
    [][(UploadServed(request') /\ response'.flash.category # "success")
          => _records' = _records]_vars

\* C1 witness: an upload failed for missing columns while the store held
\* records, one of them checked in
C1_Witness ==
    /\ UploadServed(request)
    /\ response.flash.category = "error"
    /\ response.flash.message.fields = <<"salida", "media_pension">>
    /\ Len(_records) = 2
    /\ _records[2].estado = "Ingresó"

\* C2: after a successful upload of a sheet of N rows the store holds exactly
\* N records, the i-th built from the i-th row, with ids strictly ascending
\* in row order, every estado "Pendiente", and no record of the store before.
C2_SuccessfulUploadReplacesStore ==
    [][(UploadServed(request') /\ response'.flash.category = "success")
          => /\ Len(_records') = Len(request'.samples)
             /\ \A i \in DOMAIN _records' :
                   /\ Fields(_records'[i]) = ExpectedFields(request'.samples[i])
                   /\ _records'[i].estado = "Pendiente"
                   /\ \A j \in DOMAIN _records' : i < j => _records'[i].id < _records'[j].id
             /\ Ids(_records') \cap Ids(_records) = {}]_vars

\* C2 witness: a sheet of two rows has replaced a store of an earlier upload
C2_Witness ==
    /\ UploadServed(request)
    /\ response.flash.category = "success"
    /\ request.samples = <<RowB, RowA>>
    /\ Len(_records) = 2
    /\ _records[1].id > 1

\* C3: every id handed out is a positive integer greater than every id handed
\* out before it, across uploads that succeed or fail and across toggles; the
\* ids of the stored records are among them.
C3_IdsStrictlyIncrease ==
    /\ \A i \in DOMAIN issued :
          /\ issued[i] \in Nat \ {0}
          /\ \A j \in DOMAIN issued : i < j => issued[i] < issued[j]
    /\ \A i \in DOMAIN _records :
          /\ _records[i].id \in Range(issued)
          /\ \A j \in DOMAIN _records : i < j => _records[i].id < _records[j].id

\* C3 witness: a second sheet has been stored, and its first id follows the
\* ids of the first
C3_Witness ==
    /\ UploadServed(request)
    /\ response.flash.category = "success"
    /\ Len(issued) >= 4
    /\ Len(_records) = 2
    /\ _records[1].id = 3

Found(records, record_id) == \E i \in DOMAIN records : records[i].id = record_id

\* C4: toggle of an id of the store changes that record's estado to the other
\* of "Pendiente" and "Ingresó" and reports success, and a second toggle of
\* the id right after it gives back the store as it was before the first.
C4_ToggleTwiceRestores ==
    [][request'.op = "toggle" =>
          \A i \in DOMAIN _records :
              _records[i].id = request'.record_id =>
                  /\ response'.flash.category = "success"
                  /\ _records[i].estado \in {"Pendiente", "Ingresó"}
                  /\ _records'[i].estado \in {"Pendiente", "Ingresó"} \ {_records[i].estado}
                  /\ (request.op = "toggle" /\ request.record_id = request'.record_id)
                        => _records' = toggled_from]_vars

\* C4 witness: a record is pending again after two toggles in a row
C4_Witness ==
    /\ request.op = "toggle"
    /\ response.flash.category = "success"
    /\ \E i \in DOMAIN _records :
          /\ _records[i].id = request.record_id
          /\ _records[i].estado = "Pendiente"
          /\ toggled_from[i].estado = "Ingresó"

\* C5: toggle changes nothing but the estado of the stored record whose id is
\* the argument: the number of the records, their order, every id and business
\* field and the estado of every other record stay; with no such record it
\* reports the error and the store stays as a whole.
C5_ToggleFrame ==
    [][request'.op = "toggle" =>
          /\ Len(_records') = Len(_records)
          /\ _record_id_counter' = _record_id_counter
          /\ \A i \in DOMAIN _records :
                /\ _records'[i].id = _records[i].id
                /\ Fields(_records'[i]) = Fields(_records[i])
                /\ _records[i].id # request'.record_id => _records'[i] = _records[i]
          /\ ~Found(_records, request'.record_id) =>
                /\ response'.flash = Flash("error", "No se encontró la habitación solicitada.")
                /\ _records' = _records]_vars

\* C5 witness: the first of two records was toggled and the second is still
\* as it was uploaded
C5_Witness ==
    /\ request.op = "toggle"
    /\ Len(_records) = 2
    /\ request.record_id = _records[1].id
    /\ _records[1].estado = "Ingresó"
    /\ _records[2].estado = "Pendiente"

\* C7: an upload of a readable sheet with the four headers succeeds whatever
\* the cells hold; a number of persons that is free text gives the record the
\* empty marker, and no row is dropped.  (Stated here for sheets whose cells
\* for the number of persons are missing, numbers or text.)
C7_FreeTextPersonsDegrades ==
    (/\ UploadServed(request)
     /\ request.file.filename \notin {"none", ""}
     /\ request.file.content.bytes = "excel"
     /\ request.file.content.columns = GoodColumns
     /\ \A i \in DOMAIN request.samples :
           request.samples[i].persons.k \in {"missing", "int", "float", "text"})
        => /\ response.flash.category = "success"
           /\ Len(_records) = Len(request.samples)
           /\ \A i \in DOMAIN _records :
                 request.samples[i].persons = Text(<<"t", "w", "o">>)
                     => _records[i].personas = Text(<< >>)

\* C10: an upload that ends in a failure changes neither the store nor the id
\* that the counter gives next.
C10_FailedUploadKeepsCounter ==
    [][(UploadServed(request') /\ response'.flash.category # "success")
          => /\ _records' = _records
             /\ _record_id_counter' = _record_id_counter]_vars

(***************************************************************************)
(* The threaded server: app.run serves each request in a thread of its     *)
(* own, and the interpreter may switch threads between any two accesses to *)
(* the shared objects (_records, the lists, the records, the counter).     *)
(* What a handler does to its own locals is folded into the step that      *)
(* next touches a shared object.                                           *)
(***************************************************************************)
\* the sheets uploaded to the threaded server: up to MaxRows good rows, and
\* one whose second row raises
ConcSheets == SeqsUpTo({RowA}, MaxRows) \cup {<<RowA, RowC>>}

\* a record without its estado, which toggle may change under a reader
Shown(r) == [r EXCEPT !.estado = "-"]
ShownAll(records) == [i \in DOMAIN records |-> Shown(records[i])]

\* line 85: index loads the global _records; the template then walks the list
StartIndex(t) ==
    /\ thread[t].pc = "idle"
    /\ served < MaxRequests
    /\ served' = served + 1
    /\ thread' = [thread EXCEPT ![t] =
                     [Idle EXCEPT !.pc = "render", !.ref = bound, !.i = 1,
                                  !.could = {current}]]
    /\ UNCHANGED <<lists, bound, current, _record_id_counter>>

\* line 85: the walk takes the next record of the list, or ends at its end
RenderNext(t) ==
    /\ thread[t].pc = "render"
    /\ IF thread[t].i <= Len(lists[thread[t].ref])
       THEN thread' = [thread EXCEPT ![t].seen = Append(@, lists[thread[t].ref][thread[t].i]),
                                     ![t].i = @ + 1]
       ELSE thread' = [thread EXCEPT ![t].pc = "rendered"]
    /\ UNCHANGED <<lists, bound, current, served, _record_id_counter>>

\* line 85: the page is sent
FinishIndex(t) ==
    /\ thread[t].pc = "rendered"
    /\ thread' = [thread EXCEPT ![t] = Idle]
    /\ UNCHANGED <<lists, bound, current, served, _record_id_counter>>

\* lines 56-65 with the outcome of _normalize_columns at hand
StartRows(t, rows, df) ==
    thread' = [thread EXCEPT ![t] =
                  IF df.tag = "raise" THEN Idle
                  ELSE [Idle EXCEPT !.pc = "rows", !.rows = rows,
                                    !.renamed = df.value, !.i = 1]]

\* lines 90-96, 56-65: the file is read and its columns are resolved
StartUpload(t, samples) ==
    /\ thread[t].pc = "idle"
    /\ served < MaxRequests
    /\ _record_id_counter + Len(samples) <= MaxId + 1
    /\ served' = served + 1
    /\ StartRows(t, Sheet(GoodColumns, samples).rows, _normalize_columns(GoodColumns))
    /\ UNCHANGED <<lists, bound, current, _record_id_counter>>

\* lines 69-79 with the record of the row at hand: a row that raises ends the
\* request (lines 97-99)
KeepRecord(t, built) ==
    thread' = [thread EXCEPT ![t] =
                  IF built.tag = "raise" THEN Idle
                  ELSE [@ EXCEPT !.parsed = Append(@, built.value), !.i = @ + 1]]

\* lines 68-79: one turn of the loop, which draws the next id from the counter
ParseRow(t) ==
    /\ thread[t].pc = "rows"
    /\ thread[t].i <= Len(thread[t].rows)
    /\ _record_id_counter' = _record_id_counter + 1
    /\ KeepRecord(t,
          BuildRecord(NextRecordId(_record_id_counter, thread[t].parsed),
              StrStrip(CellOf(thread[t].renamed, thread[t].rows[thread[t].i],
                              <<"r", "o", "o", "m", " ", "n", "u", "m", "b", "e", "r">>)),
              Personas(CellOf(thread[t].renamed, thread[t].rows[thread[t].i],
                              <<"n", "u", "m", "b", "e", "r", " ", "o", "f", " ", "p", "e", "r", "s", "o", "n", "s">>)),
              Salida(CellOf(thread[t].renamed, thread[t].rows[thread[t].i],
                            <<"d", "a", "y", " ", "o", "f", " ", "c", "h", "e", "c", "k", " ", "o", "u", "t">>)),
              StrStrip(CellOf(thread[t].renamed, thread[t].rows[thread[t].i],
                              <<"h", "a", "l", "f", "-", "b", "o", "a", "r", "d", " ", "i", "n", "c", "l", "u", "d", "e", "d", "?">>))))
    /\ UNCHANGED <<lists, bound, current, served>>

\* line 80: the loop is over and _parse_file returns
EndRows(t) ==
    /\ thread[t].pc = "rows"
    /\ thread[t].i > Len(thread[t].rows)
    /\ thread' = [thread EXCEPT ![t].pc = "assign"]
    /\ UNCHANGED <<lists, bound, current, served, _record_id_counter>>

\* the store has a new complete content: every read under way may return it
Installed(t, th) ==
    IF th = t THEN Idle
    ELSE IF thread[th].pc = "render"
    THEN [thread[th] EXCEPT !.could = @ \cup {ShownAll(thread[t].parsed)}]
    ELSE thread[th]

\* a faulty variant of Rebind: the list that _records names is emptied and filled
\* record by record (i counts down from 0 while it is filled)
RebindInPlace(t) ==
    IF thread[t].i > 0
    THEN /\ lists' = [lists EXCEPT ![bound] = << >>]
         /\ thread' = [thread EXCEPT ![t].i = 0]
         /\ UNCHANGED <<bound, current>>
    ELSE IF 0 - thread[t].i < Len(thread[t].parsed)
    THEN /\ lists' = [lists EXCEPT ![bound] = Append(@, thread[t].parsed[1 - thread[t].i])]
         /\ thread' = [thread EXCEPT ![t].i = @ - 1]
         /\ UNCHANGED <<bound, current>>
    ELSE /\ thread' = [th \in Threads |-> Installed(t, th)]
         /\ current' = ShownAll(thread[t].parsed)
         /\ UNCHANGED <<lists, bound>>

\* line 102: the global name is bound to the list that _parse_file built
Rebind(t) ==
    /\ lists' = Append(lists, thread[t].parsed)
    /\ bound' = Len(lists) + 1
    /\ thread' = [th \in Threads |-> Installed(t, th)]
    /\ current' = ShownAll(thread[t].parsed)

\* lines 101-104
Assign(t) ==
    /\ thread[t].pc = "assign"
    /\ Rebind(t)
    /\ UNCHANGED <<served, _record_id_counter>>

\* line 109: the first record of the list with the id, if any
StartToggle(t, record_id) ==
    /\ thread[t].pc = "idle"
    /\ served < MaxRequests
    /\ served' = served + 1
    /\ LET hits == {i \in DOMAIN lists[bound] : lists[bound][i].id = record_id}
       IN  thread' = [thread EXCEPT ![t] =
                         IF hits = {} THEN Idle
                         ELSE [Idle EXCEPT !.pc = "flip", !.ref = bound,
                                  !.i = CHOOSE i \in hits : \A j \in hits : i <= j]]
    /\ UNCHANGED <<lists, bound, current, _record_id_counter>>

\* line 113: the estado of the record found is written
Flip(t) ==
    /\ thread[t].pc = "flip"
    /\ lists' = IF thread[t].i <= Len(lists[thread[t].ref])
                THEN [lists EXCEPT ![thread[t].ref][thread[t].i].estado = ToggledEstado(@)]
                ELSE lists
    /\ thread' = [thread EXCEPT ![t] = Idle]
    /\ UNCHANGED <<bound, current, served, _record_id_counter>>

\* what the threaded server leaves alone
restVars == <<_records, request, response, issued, toggled_from, pureVars>>

NextConc ==
    \/ \E t \in Threads : StartIndex(t) /\ UNCHANGED restVars
    \/ \E t \in Threads : RenderNext(t) /\ UNCHANGED restVars
    \/ \E t \in Threads : FinishIndex(t) /\ UNCHANGED restVars
    \/ \E t \in Threads, samples \in ConcSheets :
          StartUpload(t, samples) /\ UNCHANGED restVars
    \/ \E t \in Threads : ParseRow(t) /\ UNCHANGED restVars
    \/ \E t \in Threads : EndRows(t) /\ UNCHANGED restVars
    \/ \E t \in Threads : Assign(t) /\ UNCHANGED restVars
    \/ \E t \in Threads, record_id \in ToggleIds :
          StartToggle(t, record_id) /\ UNCHANGED restVars
    \/ \E t \in Threads : Flip(t) /\ UNCHANGED restVars

SpecConc == Init /\ [][NextConc]_vars

\* C6: with the handlers running in threads, the records that one read of the
\* store returns are those of one list that _records was bound to during the
\* read, all of them and in their order: the list bound when the read began or
\* a list that an upload bound while the read went on, never a part of one or
\* a mix of two.
C6_ReadsSeeOneWholeList ==
    \A t \in Threads :
        thread[t].pc = "rendered" => ShownAll(thread[t].seen) \in thread[t].could

\* C6 witness: a read that began on a list of two records has returned both
\* although an upload bound _records to another list meanwhile
C6_Witness ==
    \E t \in Threads :
        /\ thread[t].pc = "rendered"
        /\ Len(thread[t].seen) = 2
        /\ thread[t].ref # bound
        /\ Cardinality(thread[t].could) = 2

=============================================================================
